---- MODULE Spec2Model ----
(***************************************************************************)
(* A model of the WatermelonDB native Session (watermelondb::Database,     *)
(* native/shared/Database.cpp): the mutex, the destroyed flag, the         *)
(* compiled-statement cache, the record-existence cache, and the two       *)
(* transactional schema operations migrate and unsafeResetDatabase,        *)
(* running on several caller threads over one SQLite handle.               *)
(*                                                                         *)
(* The SQLite handle (SqliteDb, executeMultiple, beginTransaction, commit, *)
(* rollback, getUserVersion, setUserVersion) is not part of Database.cpp;  *)
(* it is modelled from the Engine Handle interface of the specification    *)
(* (section 6): every call either succeeds or fails with an error, and a   *)
(* failed call changes nothing (a failed batch keeps the statements that   *)
(* ran before the failing one).                                            *)
(***************************************************************************)
EXTENDS Integers, Sequences, FiniteSets, TLC

\* ------------------------------------------------------------------ bounds
NumThreads == 2
NumKeys == 2
NumStmts == 2
MaxVersion == 1
MaxBatchLen == 2
MaxPasswordLen == 2

Threads == 1..NumThreads
Keys == 1..NumKeys
Stmts == 1..NumStmts
Versions == 0..MaxVersion
\* A piece of schema or data is named by the SQL statement that creates it.
Items == 1..MaxBatchLen
\* The SQL text handed to migrate / unsafeResetDatabase: a batch of statements,
\* run one after the other by executeMultiple.
Batches == {[i \in 1..n |-> i] : n \in 1..MaxBatchLen}

NoThread == 0

\* The passwords a Session is opened with: short texts, <<>> for "no password".
PasswordChars == {"a", "b"}
Passwords == UNION {[1..n -> PasswordChars] : n \in 0..MaxPasswordLen}

VARIABLES
    ctor,              \* the constructor: the build's platform macros, its
                       \* arguments, the script it assembled, how far it got
    ndebug,            \* the build defines NDEBUG: assert() is compiled out
    alive,             \* the process has not aborted or crashed
    closeCount,        \* how many times the Engine Handle was closed (db_->destroy())
    inTx,              \* a transaction is open on the handle
    resetMode,         \* SQLITE_DBCONFIG_RESET_DATABASE is enabled
    userVersion,       \* the schema version as the connection reads it
    data,              \* the schema/data as the connection reads it
    committed,         \* the durable [version, data]: what a rollback returns to
    isDestroyed,       \* Database::isDestroyed_
    cachedStatements,  \* Database::cachedStatements_ (its compiled statements)
    prepared,          \* every statement ever compiled into the statement cache
    finalizeCount,     \* how many times sqlite3_finalize ran on each statement
    cachedRecords,     \* Database::cachedRecords_
    lastMarked,        \* the keys whose most recent mutator call, since the last
                       \* reset cleared the cache, was markAsCached
    mutex,             \* Database::mutex_: the thread holding it, or NoThread
    pc,                \* each thread's position
    call               \* the operation running under the mutex

buildVars == <<ctor, ndebug>>
engineVars == <<closeCount, inTx, resetMode, userVersion, data, committed>>
stmtVars == <<cachedStatements, prepared, finalizeCount>>
cacheVars == <<cachedRecords, lastMarked>>
vars == <<ctor, ndebug, alive, closeCount, inTx, resetMode, userVersion, data, committed,
          isDestroyed, cachedStatements, prepared, finalizeCount, cachedRecords,
          lastMarked, mutex, pc, call>>

Range(s) == {s[i] : i \in 1..Len(s)}

\* ------------------------------------------------------- the call in progress
NoCall ==
    [op |-> "none", sql |-> <<>>, from |-> 0, to |-> 0, err |-> "none",
     log |-> <<>>, todo |-> {},
     pre |-> [version |-> 0, data |-> {}, cache |-> {}, destroyed |-> FALSE]]

\* The state a call finds when it has taken the mutex (the record cache is
\* kept for unsafeResetDatabase, the one operation that writes it).
NewCall(op, sql, from, to) ==
    [op |-> op, sql |-> sql, from |-> from, to |-> to, err |-> "none",
     log |-> <<>>, todo |-> {},
     pre |-> [version |-> userVersion, data |-> data,
              cache |-> IF op = "unsafeResetDatabase" THEN cachedRecords ELSE {},
              destroyed |-> isDestroyed]]

\* The Engine Handle calls the running operation has made, in order.
Called(f) == \E i \in 1..Len(call.log) : call.log[i].f = f
Succeeded(f) == \E i \in 1..Len(call.log) : call.log[i].f = f /\ call.log[i].ok

\* ---------------------------------------------------- initialization script
\* One statement of the script: "pragma <name> = <value>;".
Pragma(name, value) == [pragma |-> name, value |-> value]

\* The statements of the #ifdef SQLITE_HAS_CODEC block, in the order written.
EncryptionPragmas(password) ==
    << Pragma("key", password),
       Pragma("cipher_page_size", <<"4096">>),
       Pragma("kdf_iter", <<"64000">>),
       Pragma("cipher_memory_security", <<"ON">>),
       Pragma("cipher_default_use_hmac", <<"ON">>),
       Pragma("cipher_compatibility", <<"4">>) >>

\* initSql with the platform pragma ahead of the SQLCipher block.
InitSql_TuningFirst(password, usesExclusiveLocking, sqliteHasCodec, android) ==
    (IF android THEN <<Pragma("temp_store", <<"memory">>)>> ELSE <<>>)
    \o (IF sqliteHasCodec /\ password # <<>>
        THEN EncryptionPragmas(password) ELSE <<>>)
    \o <<Pragma("journal_mode", <<"WAL">>), Pragma("busy_timeout", <<"5000">>)>>
    \o (IF android THEN <<Pragma("synchronous", <<"FULL">>)>> ELSE <<>>)
    \o (IF usesExclusiveLocking
        THEN <<Pragma("locking_mode", <<"EXCLUSIVE">>)>> ELSE <<>>)

\* The string initSql the constructor assembles, statement by statement, in
\* a build with or without SQLITE_HAS_CODEC and ANDROID defined.
InitSql(password, usesExclusiveLocking, sqliteHasCodec, android) ==
    (IF sqliteHasCodec /\ password # <<>>
     THEN EncryptionPragmas(password) ELSE <<>>)
    \o (IF android THEN <<Pragma("temp_store", <<"memory">>)>> ELSE <<>>)
    \o <<Pragma("journal_mode", <<"WAL">>), Pragma("busy_timeout", <<"5000">>)>>
    \o (IF android THEN <<Pragma("synchronous", <<"FULL">>)>> ELSE <<>>)
    \o (IF usesExclusiveLocking
        THEN <<Pragma("locking_mode", <<"EXCLUSIVE">>)>> ELSE <<>>)

\* The constructor's record once it has run with these arguments.
Constructed(password, usesExclusiveLocking, sqliteHasCodec, android, at) ==
    [at |-> at, sqliteHasCodec |-> sqliteHasCodec, android |-> android,
     password |-> password, usesExclusiveLocking |-> usesExclusiveLocking,
     initSql |-> InitSql(password, usesExclusiveLocking, sqliteHasCodec, android)]

\* ------------------------------------------------------------------ Init
\* The Session's members and its database file as the constructor finds and
\* leaves them: an open handle on a file that may already hold a schema
\* version and data, no transaction, empty caches.
Members ==
    /\ ndebug \in BOOLEAN
    /\ alive = TRUE
    /\ closeCount = 0
    /\ inTx = FALSE
    /\ resetMode = FALSE
    /\ userVersion \in Versions
    /\ data \in SUBSET Items
    /\ committed = [version |-> userVersion, data |-> data]
    /\ isDestroyed = FALSE
    /\ cachedStatements = {}
    /\ prepared = {}
    /\ finalizeCount = [s \in Stmts |-> 0]
    /\ cachedRecords = {}
    /\ lastMarked = {}
    /\ mutex = NoThread
    /\ pc = [t \in Threads |-> "idle"]
    /\ call = NoCall

\* The Session after construction.  No operation reads the constructor's
\* arguments, so the specifications of the operations start from one opening:
\* no password, no exclusive locking.
Init ==
    /\ ctor = Constructed(<<>>, FALSE, FALSE, FALSE, "open")
    /\ Members

\* Before construction, in each of the four builds.
InitNew ==
    /\ ctor \in [at : {"new"}, sqliteHasCodec : BOOLEAN, android : BOOLEAN,
                 password : {<<>>}, usesExclusiveLocking : {FALSE},
                 initSql : {<<>>}]
    /\ Members

\* ------------------------------------------------------ the Engine Handle
\* Modelled from the specification's Engine Handle interface.  o is the
\* outcome of the call: "ok", "error" (the call throws) or "crash" (a call on
\* a closed handle is undefined: it reports misuse or takes the process down).
DbOpen == closeCount = 0

Outcomes(canSucceed) ==
    IF ~DbOpen THEN {"error", "crash"}
    ELSE IF canSucceed THEN {"ok", "error"}
    ELSE {"error"}

\* What is durable once the connection's view is [v, d]: inside a transaction
\* nothing new, outside one (autocommit) the view itself.
Durable(v, d) == IF inTx THEN committed ELSE [version |-> v, data |-> d]

\* beginTransaction(): fails inside a transaction.
EngineBegin(o) ==
    /\ o \in Outcomes(~inTx)
    /\ inTx' = IF o = "ok" THEN TRUE ELSE inTx
    /\ UNCHANGED <<closeCount, resetMode, userVersion, data, committed>>

\* commit(): makes the view durable and ends the transaction; a failed commit
\* leaves the transaction open.
EngineCommit(o) ==
    /\ o \in Outcomes(inTx)
    /\ inTx' = IF o = "ok" THEN FALSE ELSE inTx
    /\ committed' = IF o = "ok" THEN [version |-> userVersion, data |-> data]
                    ELSE committed
    /\ UNCHANGED <<closeCount, resetMode, userVersion, data>>

\* rollback(): returns the view to the durable state and ends the transaction;
\* a failed rollback leaves the transaction open.
EngineRollback(o) ==
    /\ o \in Outcomes(inTx)
    /\ inTx' = IF o = "ok" THEN FALSE ELSE inTx
    /\ userVersion' = IF o = "ok" THEN committed.version ELSE userVersion
    /\ data' = IF o = "ok" THEN committed.data ELSE data
    /\ UNCHANGED <<closeCount, resetMode, committed>>

\* executeMultiple(sql): runs the statements in order; the first n ran, and
\* the call succeeded when n is all of them.
EngineExecute(sql, n, o) ==
    /\ n \in 0..Len(sql)
    /\ o \in Outcomes(n = Len(sql))
    /\ (o = "ok") => n = Len(sql)
    /\ (o = "error" /\ DbOpen) => n < Len(sql)
    /\ ~DbOpen => n = 0
    /\ data' = data \cup {sql[i] : i \in 1..n}
    /\ committed' = Durable(userVersion, data')
    /\ UNCHANGED <<closeCount, inTx, resetMode, userVersion>>

\* setUserVersion(v)
EngineSetVersion(v, o) ==
    /\ o \in Outcomes(TRUE)
    /\ userVersion' = IF o = "ok" THEN v ELSE userVersion
    /\ committed' = Durable(userVersion', data)
    /\ UNCHANGED <<closeCount, inTx, resetMode, data>>

\* getUserVersion(): reads the version, changes nothing.
EngineGetVersion(o) ==
    /\ o \in Outcomes(TRUE) \ (IF DbOpen THEN {"error"} ELSE {})
    /\ UNCHANGED engineVars

\* sqlite3_db_config(SQLITE_DBCONFIG_RESET_DATABASE, on)
EngineSetResetMode(on, o) ==
    /\ o \in Outcomes(TRUE)
    /\ resetMode' = IF o = "ok" THEN on ELSE resetMode
    /\ UNCHANGED <<closeCount, inTx, userVersion, data, committed>>

\* executeMultiple("vacuum"): fails inside a transaction; in reset mode it
\* rebuilds the file as an empty database (v is the version the rebuilt file
\* carries: the old one or 0).
EngineVacuum(v, o) ==
    /\ o \in Outcomes(~inTx)
    /\ v \in {0, userVersion}
    /\ (o # "ok" \/ ~resetMode) => v = userVersion
    /\ userVersion' = v
    /\ data' = IF o = "ok" /\ resetMode THEN {} ELSE data
    /\ committed' = Durable(userVersion', data')
    /\ UNCHANGED <<closeCount, inTx, resetMode>>

\* db_->destroy(): closes the handle; an open transaction is discarded.
EngineClose ==
    /\ closeCount' = closeCount + 1
    /\ inTx' = FALSE
    /\ userVersion' = committed.version
    /\ data' = committed.data
    /\ UNCHANGED <<resetMode, committed>>

\* -------------------------------------------------------------- constructor
\* Database::Database: opens the handle, assembles initSql and runs it with
\* executeMultiple(initSql); when the script fails the constructor throws and
\* there is no Session.
Database(password, usesExclusiveLocking) ==
    /\ ctor.at = "new"
    /\ \E o \in {"ok", "error"} :
          ctor' = Constructed(password, usesExclusiveLocking, ctor.sqliteHasCodec,
                              ctor.android, IF o = "ok" THEN "open" ELSE "failed")
    /\ UNCHANGED <<ndebug, alive, engineVars, isDestroyed, stmtVars, cacheVars, mutex,
                   pc, call>>

\* ------------------------------------------------- the record-existence cache
isCached(cacheKey) == cacheKey \in cachedRecords

\* Database::isCached: no lock, no side effect.
IsCached(t, cacheKey) ==
    /\ alive /\ pc[t] = "idle"
    /\ isCached(cacheKey) \in BOOLEAN
    /\ UNCHANGED vars

\* Database::markAsCached: no lock.
MarkAsCached(t, cacheKey) ==
    /\ alive /\ pc[t] = "idle"
    /\ cachedRecords' = cachedRecords \cup {cacheKey}
    /\ lastMarked' = lastMarked \cup {cacheKey}
    /\ UNCHANGED <<buildVars, alive, engineVars, isDestroyed, stmtVars, mutex, pc, call>>

\* removeFromCache that erases nothing.
RemoveFromCache_EraseForgotten(t, cacheKey) ==
    /\ alive /\ pc[t] = "idle"
    /\ lastMarked' = lastMarked \ {cacheKey}
    /\ UNCHANGED <<buildVars, alive, engineVars, isDestroyed, stmtVars, cachedRecords,
                   mutex, pc, call>>

\* Database::removeFromCache: no lock.
RemoveFromCache(t, cacheKey) ==
    /\ alive /\ pc[t] = "idle"
    /\ cachedRecords' = cachedRecords \ {cacheKey}
    /\ lastMarked' = lastMarked \ {cacheKey}
    /\ UNCHANGED <<buildVars, alive, engineVars, isDestroyed, stmtVars, mutex, pc, call>>

\* ------------------------------------------------------ the statement cache
\* A query compiles a statement into the statement cache (the querying code is
\* not in Database.cpp; by the specification it runs under the guard).
CacheStatement(t, s) ==
    /\ alive /\ pc[t] = "idle" /\ mutex = NoThread
    /\ ~isDestroyed
    /\ s \notin cachedStatements
    /\ cachedStatements' = cachedStatements \cup {s}
    /\ prepared' = prepared \cup {s}
    /\ UNCHANGED <<buildVars, alive, engineVars, isDestroyed, finalizeCount, cacheVars,
                   mutex, pc, call>>

\* ------------------------------------------------------- steps under the mutex
\* The running call made Engine Handle call f with outcome o: on success it
\* goes on at okpc, on an error the exception takes it to errpc, a crash ends
\* the process.
Advance(t, f, o, okpc, errpc) ==
    /\ alive' = (o # "crash")
    /\ pc' = [pc EXCEPT ![t] = IF o = "ok" THEN okpc
                               ELSE IF o = "error" THEN errpc ELSE @]
    /\ call' = [call EXCEPT !.log = Append(@, [f |-> f, ok |-> (o = "ok")]),
                            !.err = IF o = "error" THEN f ELSE @]
    /\ UNCHANGED <<buildVars, mutex>>

\* std::lock_guard's destructor: the call returns (call.err is what it throws).
Unlock(t) ==
    /\ alive /\ pc[t] = "unlock" /\ mutex = t
    /\ mutex' = NoThread
    /\ pc' = [pc EXCEPT ![t] = "idle"]
    /\ call' = NoCall
    /\ UNCHANGED <<buildVars, alive, engineVars, isDestroyed, stmtVars, cacheVars>>

\* ------------------------------------------------------------------ migrate
\* migrate that starts without waiting for the mutex.
Migrate_NoLock(t, migrationSql, fromVersion, toVersion) ==
    /\ alive /\ pc[t] = "idle"
    /\ mutex' = t
    /\ pc' = [pc EXCEPT ![t] = "m_begin"]
    /\ call' = NewCall("migrate", migrationSql, fromVersion, toVersion)
    /\ UNCHANGED <<buildVars, alive, engineVars, isDestroyed, stmtVars, cacheVars>>

\* Database::migrate takes the mutex.
Migrate(t, migrationSql, fromVersion, toVersion) ==
    /\ alive /\ pc[t] = "idle" /\ mutex = NoThread
    /\ mutex' = t
    /\ pc' = [pc EXCEPT ![t] = "m_begin"]
    /\ call' = NewCall("migrate", migrationSql, fromVersion, toVersion)
    /\ UNCHANGED <<buildVars, alive, engineVars, isDestroyed, stmtVars, cacheVars>>

\* migrate whose beginTransaction() is inside the try block.
MigrateBegin_InsideTry(t) ==
    /\ alive /\ pc[t] = "m_begin"
    /\ \E o \in {"ok", "error", "crash"} :
          /\ EngineBegin(o)
          /\ Advance(t, "begin", o, "m_assert", "m_rollback")
    /\ UNCHANGED <<isDestroyed, stmtVars, cacheVars>>

\* beginTransaction(), before the try block: its exception leaves the call.
MigrateBegin(t) ==
    /\ alive /\ pc[t] = "m_begin"
    /\ \E o \in {"ok", "error", "crash"} :
          /\ EngineBegin(o)
          /\ Advance(t, "begin", o, "m_assert", "unlock")
    /\ UNCHANGED <<isDestroyed, stmtVars, cacheVars>>

\* assert(getUserVersion() == fromVersion): nothing in an NDEBUG build;
\* otherwise a mismatch aborts the process.
MigrateAssert(t) ==
    /\ alive /\ pc[t] = "m_assert"
    /\ \/ /\ ndebug
          /\ pc' = [pc EXCEPT ![t] = "m_exec"]
          /\ UNCHANGED <<engineVars, alive, call>>
       \/ /\ ~ndebug
          /\ \E o \in {"ok", "error", "crash"} :
                /\ EngineGetVersion(o)
                /\ IF o = "ok" /\ userVersion # call.from
                   THEN /\ alive' = FALSE
                        /\ call' = [call EXCEPT
                               !.log = Append(@, [f |-> "getUserVersion", ok |-> TRUE]),
                               !.err = "assert"]
                        /\ UNCHANGED pc
                   ELSE Advance(t, "getUserVersion", o, "m_exec", "m_rollback")
    /\ UNCHANGED <<buildVars, mutex, isDestroyed, stmtVars, cacheVars>>

\* migrate that empties the record-existence cache as the reset does.
MigrateExecute_ClearsCache(t) ==
    /\ alive /\ pc[t] = "m_exec"
    /\ \E n \in 0..Len(call.sql), o \in {"ok", "error", "crash"} :
          /\ EngineExecute(call.sql, n, o)
          /\ Advance(t, "execute", o, "m_setver", "m_rollback")
    /\ cachedRecords' = {}
    /\ lastMarked' = {}
    /\ UNCHANGED <<isDestroyed, stmtVars>>

\* executeMultiple(migrationSql.utf8(rt))
MigrateExecute(t) ==
    /\ alive /\ pc[t] = "m_exec"
    /\ \E n \in 0..Len(call.sql), o \in {"ok", "error", "crash"} :
          /\ EngineExecute(call.sql, n, o)
          /\ Advance(t, "execute", o, "m_setver", "m_rollback")
    /\ UNCHANGED <<isDestroyed, stmtVars, cacheVars>>

\* migrate that writes fromVersion back instead of toVersion.
MigrateSetVersion_FromVersion(t) ==
    /\ alive /\ pc[t] = "m_setver"
    /\ \E o \in {"ok", "error", "crash"} :
          /\ EngineSetVersion(call.from, o)
          /\ Advance(t, "setUserVersion", o, "m_commit", "m_rollback")
    /\ UNCHANGED <<isDestroyed, stmtVars, cacheVars>>

\* setUserVersion(toVersion)
MigrateSetVersion(t) ==
    /\ alive /\ pc[t] = "m_setver"
    /\ \E o \in {"ok", "error", "crash"} :
          /\ EngineSetVersion(call.to, o)
          /\ Advance(t, "setUserVersion", o, "m_commit", "m_rollback")
    /\ UNCHANGED <<isDestroyed, stmtVars, cacheVars>>

\* commit()
MigrateCommit(t) ==
    /\ alive /\ pc[t] = "m_commit"
    /\ \E o \in {"ok", "error", "crash"} :
          /\ EngineCommit(o)
          /\ Advance(t, "commit", o, "unlock", "m_rollback")
    /\ UNCHANGED <<isDestroyed, stmtVars, cacheVars>>

\* migrate whose catch block rethrows without rolling back.
MigrateRollback_Rethrow(t) ==
    /\ alive /\ pc[t] = "m_rollback"
    /\ pc' = [pc EXCEPT ![t] = "unlock"]
    /\ UNCHANGED <<buildVars, alive, engineVars, isDestroyed, stmtVars, cacheVars, mutex,
                   call>>

\* catch (const std::exception &) { rollback(); throw; }: when rollback()
\* itself throws, its exception is the one that leaves the call.
MigrateRollback(t) ==
    /\ alive /\ pc[t] = "m_rollback"
    /\ \E o \in {"ok", "error", "crash"} :
          /\ EngineRollback(o)
          /\ Advance(t, "rollback", o, "unlock", "unlock")
    /\ UNCHANGED <<isDestroyed, stmtVars, cacheVars>>

\* ------------------------------------------------------ unsafeResetDatabase
\* Database::unsafeResetDatabase takes the mutex.
UnsafeResetDatabase(t, schema, schemaVersion) ==
    /\ alive /\ pc[t] = "idle" /\ mutex = NoThread
    /\ mutex' = t
    /\ pc' = [pc EXCEPT ![t] = "r_enable"]
    /\ call' = NewCall("unsafeResetDatabase", schema, 0, schemaVersion)
    /\ UNCHANGED <<buildVars, alive, engineVars, isDestroyed, stmtVars, cacheVars>>

\* sqlite3_db_config(.., SQLITE_DBCONFIG_RESET_DATABASE, 1, 0)
ResetEnable(t) ==
    /\ alive /\ pc[t] = "r_enable"
    /\ \E o \in {"ok", "error", "crash"} :
          /\ EngineSetResetMode(TRUE, o)
          /\ Advance(t, "enableReset", o, "r_vacuum", "unlock")
    /\ UNCHANGED <<isDestroyed, stmtVars, cacheVars>>

\* reset whose vacuum is inside the try block: its failure is rolled back.
ResetVacuum_InsideTry(t) ==
    /\ alive /\ pc[t] = "r_vacuum"
    /\ \E v \in Versions, o \in {"ok", "error", "crash"} :
          /\ EngineVacuum(v, o)
          /\ Advance(t, "vacuum", o, "r_disable", "r_rollback")
    /\ UNCHANGED <<isDestroyed, stmtVars, cacheVars>>

\* executeMultiple("vacuum")
ResetVacuum(t) ==
    /\ alive /\ pc[t] = "r_vacuum"
    /\ \E v \in Versions, o \in {"ok", "error", "crash"} :
          /\ EngineVacuum(v, o)
          /\ Advance(t, "vacuum", o, "r_disable", "unlock")
    /\ UNCHANGED <<isDestroyed, stmtVars, cacheVars>>

\* sqlite3_db_config(.., SQLITE_DBCONFIG_RESET_DATABASE, 0, 0)
ResetDisable(t) ==
    /\ alive /\ pc[t] = "r_disable"
    /\ \E o \in {"ok", "error", "crash"} :
          /\ EngineSetResetMode(FALSE, o)
          /\ Advance(t, "disableReset", o, "r_begin", "unlock")
    /\ UNCHANGED <<isDestroyed, stmtVars, cacheVars>>

\* beginTransaction(), before the try block.
ResetBegin(t) ==
    /\ alive /\ pc[t] = "r_begin"
    /\ \E o \in {"ok", "error", "crash"} :
          /\ EngineBegin(o)
          /\ Advance(t, "begin", o, "r_clear", "unlock")
    /\ UNCHANGED <<isDestroyed, stmtVars, cacheVars>>

\* unsafeResetDatabase that forgets to clear cachedRecords_.
ResetClearCache_Forgotten(t) ==
    /\ alive /\ pc[t] = "r_clear"
    /\ lastMarked' = {}
    /\ pc' = [pc EXCEPT ![t] = "r_exec"]
    /\ UNCHANGED <<buildVars, alive, engineVars, isDestroyed, stmtVars, cachedRecords,
                   mutex, call>>

\* cachedRecords_ = {}
ResetClearCache(t) ==
    /\ alive /\ pc[t] = "r_clear"
    /\ cachedRecords' = {}
    /\ lastMarked' = {}
    /\ pc' = [pc EXCEPT ![t] = "r_exec"]
    /\ UNCHANGED <<buildVars, alive, engineVars, isDestroyed, stmtVars, mutex, call>>

\* executeMultiple(schema.utf8(rt))
ResetExecute(t) ==
    /\ alive /\ pc[t] = "r_exec"
    /\ \E n \in 0..Len(call.sql), o \in {"ok", "error", "crash"} :
          /\ EngineExecute(call.sql, n, o)
          /\ Advance(t, "execute", o, "r_setver", "r_rollback")
    /\ UNCHANGED <<isDestroyed, stmtVars, cacheVars>>

\* unsafeResetDatabase that does not write the schema version.
ResetSetVersion_Skipped(t) ==
    /\ alive /\ pc[t] = "r_setver"
    /\ pc' = [pc EXCEPT ![t] = "r_commit"]
    /\ UNCHANGED <<buildVars, alive, engineVars, isDestroyed, stmtVars, cacheVars, mutex,
                   call>>

\* setUserVersion(schemaVersion)
ResetSetVersion(t) ==
    /\ alive /\ pc[t] = "r_setver"
    /\ \E o \in {"ok", "error", "crash"} :
          /\ EngineSetVersion(call.to, o)
          /\ Advance(t, "setUserVersion", o, "r_commit", "r_rollback")
    /\ UNCHANGED <<isDestroyed, stmtVars, cacheVars>>

\* commit()
ResetCommit(t) ==
    /\ alive /\ pc[t] = "r_commit"
    /\ \E o \in {"ok", "error", "crash"} :
          /\ EngineCommit(o)
          /\ Advance(t, "commit", o, "unlock", "r_rollback")
    /\ UNCHANGED <<isDestroyed, stmtVars, cacheVars>>

\* unsafeResetDatabase whose catch block rethrows without rolling back.
ResetRollback_Rethrow(t) ==
    /\ alive /\ pc[t] = "r_rollback"
    /\ pc' = [pc EXCEPT ![t] = "unlock"]
    /\ UNCHANGED <<buildVars, alive, engineVars, isDestroyed, stmtVars, cacheVars, mutex,
                   call>>

\* catch (const std::exception &) { rollback(); throw; }
ResetRollback(t) ==
    /\ alive /\ pc[t] = "r_rollback"
    /\ \E o \in {"ok", "error", "crash"} :
          /\ EngineRollback(o)
          /\ Advance(t, "rollback", o, "unlock", "unlock")
    /\ UNCHANGED <<isDestroyed, stmtVars, cacheVars>>

\* ------------------------------------------------------------------ destroy
\* Database::destroy (also run by ~Database) takes the mutex.
Destroy(t) ==
    /\ alive /\ pc[t] = "idle" /\ mutex = NoThread
    /\ mutex' = t
    /\ pc' = [pc EXCEPT ![t] = "d_check"]
    /\ call' = NewCall("destroy", <<>>, 0, 0)
    /\ UNCHANGED <<buildVars, alive, engineVars, isDestroyed, stmtVars, cacheVars>>

\* destroy without the isDestroyed_ guard.
DestroyCheck_NoGuard(t) ==
    /\ alive /\ pc[t] = "d_check"
    /\ isDestroyed' = TRUE
    /\ call' = [call EXCEPT !.todo = cachedStatements]
    /\ pc' = [pc EXCEPT ![t] = "d_finalize"]
    /\ UNCHANGED <<buildVars, alive, engineVars, stmtVars, cacheVars, mutex>>

\* if (isDestroyed_) return; isDestroyed_ = true;
DestroyCheck(t) ==
    /\ alive /\ pc[t] = "d_check"
    /\ IF isDestroyed
       THEN /\ pc' = [pc EXCEPT ![t] = "unlock"]
            /\ UNCHANGED <<isDestroyed, call>>
       ELSE /\ isDestroyed' = TRUE
            /\ call' = [call EXCEPT !.todo = cachedStatements]
            /\ pc' = [pc EXCEPT ![t] = "d_finalize"]
    /\ UNCHANGED <<buildVars, alive, engineVars, stmtVars, cacheVars, mutex>>

\* destroy that goes on to close the handle without finalizing anything.
DestroyFinalize_Skipped(t) ==
    /\ alive /\ pc[t] = "d_finalize"
    /\ pc' = [pc EXCEPT ![t] = "d_clear"]
    /\ UNCHANGED <<buildVars, alive, engineVars, isDestroyed, stmtVars, cacheVars, mutex,
                   call>>

\* destroy whose loop ends at the first sqlite3_finalize that reports an error.
DestroyFinalize_StopsOnError(t) ==
    /\ alive /\ pc[t] = "d_finalize"
    /\ \/ /\ call.todo # {}
          /\ \E s \in call.todo, rc \in {"ok", "error"} :
                /\ finalizeCount' = [finalizeCount EXCEPT ![s] = @ + 1]
                /\ call' = [call EXCEPT
                       !.todo = IF rc = "ok" THEN @ \ {s} ELSE {},
                       !.log = Append(@, [f |-> "finalize", ok |-> (rc = "ok")])]
          /\ UNCHANGED pc
       \/ /\ call.todo = {}
          /\ pc' = [pc EXCEPT ![t] = "d_clear"]
          /\ UNCHANGED <<finalizeCount, call>>
    /\ UNCHANGED <<buildVars, alive, engineVars, isDestroyed, cachedStatements, prepared,
                   cacheVars, mutex>>

\* for (cachedStatement : cachedStatements_) sqlite3_finalize(statement);
\* the result code of sqlite3_finalize is not looked at.
DestroyFinalize(t) ==
    /\ alive /\ pc[t] = "d_finalize"
    /\ \/ /\ call.todo # {}
          /\ \E s \in call.todo, rc \in {"ok", "error"} :
                /\ finalizeCount' = [finalizeCount EXCEPT ![s] = @ + 1]
                /\ call' = [call EXCEPT
                       !.todo = @ \ {s},
                       !.log = Append(@, [f |-> "finalize", ok |-> (rc = "ok")])]
          /\ UNCHANGED pc
       \/ /\ call.todo = {}
          /\ pc' = [pc EXCEPT ![t] = "d_clear"]
          /\ UNCHANGED <<finalizeCount, call>>
    /\ UNCHANGED <<buildVars, alive, engineVars, isDestroyed, cachedStatements, prepared,
                   cacheVars, mutex>>

\* cachedStatements_ = {}
DestroyClear(t) ==
    /\ alive /\ pc[t] = "d_clear"
    /\ cachedStatements' = {}
    /\ pc' = [pc EXCEPT ![t] = "d_close"]
    /\ UNCHANGED <<buildVars, alive, engineVars, isDestroyed, prepared, finalizeCount,
                   cacheVars, mutex, call>>

\* db_->destroy()
DestroyClose(t) ==
    /\ alive /\ pc[t] = "d_close"
    /\ EngineClose
    /\ call' = [call EXCEPT !.log = Append(@, [f |-> "close", ok |-> TRUE])]
    /\ pc' = [pc EXCEPT ![t] = "unlock"]
    /\ UNCHANGED <<buildVars, alive, isDestroyed, stmtVars, cacheVars, mutex>>

\* ------------------------------------------------------------ specifications
CacheOps(t) ==
    \/ \E k \in Keys : IsCached(t, k)
    \/ \E k \in Keys : MarkAsCached(t, k)
    \/ \E k \in Keys : RemoveFromCache(t, k)

StatementOps(t) ==
    \E s \in Stmts : CacheStatement(t, s)

MigrateOps(t) ==
    \/ \E sql \in Batches, from \in Versions, to \in Versions :
          Migrate(t, sql, from, to)
    \/ MigrateBegin(t)
    \/ MigrateAssert(t)
    \/ MigrateExecute(t)
    \/ MigrateSetVersion(t)
    \/ MigrateCommit(t)
    \/ MigrateRollback(t)

ResetOps(t) ==
    \/ \E schema \in Batches, v \in Versions : UnsafeResetDatabase(t, schema, v)
    \/ ResetEnable(t)
    \/ ResetVacuum(t)
    \/ ResetDisable(t)
    \/ ResetBegin(t)
    \/ ResetClearCache(t)
    \/ ResetExecute(t)
    \/ ResetSetVersion(t)
    \/ ResetCommit(t)
    \/ ResetRollback(t)

DestroyOps(t) ==
    \/ Destroy(t)
    \/ DestroyCheck(t)
    \/ DestroyFinalize(t)
    \/ DestroyClear(t)
    \/ DestroyClose(t)

\* Every operation of the Session, from every thread.
Next ==
    \E t \in Threads :
       \/ CacheOps(t)
       \/ StatementOps(t)
       \/ MigrateOps(t)
       \/ ResetOps(t)
       \/ DestroyOps(t)
       \/ Unlock(t)

Spec == Init /\ [][Next]_vars

\* The callers use the schema operations and destroy, and leave the caches alone.
NextSchema ==
    \E t \in Threads :
       \/ MigrateOps(t)
       \/ ResetOps(t)
       \/ DestroyOps(t)
       \/ Unlock(t)

SpecSchema == Init /\ [][NextSchema]_vars

\* The callers use the record-existence cache and unsafeResetDatabase.
NextCache ==
    \E t \in Threads :
       \/ CacheOps(t)
       \/ ResetOps(t)
       \/ Unlock(t)

\* These operations hold no assert(): the build does not matter to them.
InitCache == Init /\ ~ndebug

SpecCache == InitCache /\ [][NextCache]_vars

\* The callers run queries (which fill the statement cache) and destroy.
NextDestroy ==
    \E t \in Threads :
       \/ StatementOps(t)
       \/ DestroyOps(t)
       \/ Unlock(t)

SpecDestroy == Init /\ [][NextDestroy]_vars

\* Workload: migrations, from threads that also use the record cache.
NextMigrateCache ==
    \E t \in Threads :
        \/ CacheOps(t)
        \/ MigrateOps(t)
        \/ Unlock(t)

SpecMigrateCache == Init /\ [][NextMigrateCache]_vars

\* Workload: opening a Session, with every password and locking option.
NextInit ==
    \E password \in Passwords, usesExclusiveLocking \in BOOLEAN :
        Database(password, usesExclusiveLocking)

SpecInit == InitNew /\ [][NextInit]_vars

\* ------------------------------------------------------------------ claims
\* The call of operation op has run to its end and is about to return (it
\* still holds the mutex); call.err is the exception it throws, if any.
Returning(op) == call.op = op /\ alive /\ pc[mutex] = "unlock"

\* In the running call, every call of f was made before every call of g.
CalledBefore(f, g) ==
    \A i, j \in 1..Len(call.log) :
        (call.log[i].f = f /\ call.log[j].f = g) => i < j

\* How many times the running call has called f.
CallCount(f) == Cardinality({i \in 1..Len(call.log) : call.log[i].f = f})

\* The call failed after its transaction began.
FailedInTransaction(op) ==
    Returning(op) /\ Succeeded("begin") /\ call.err # "none"

\* C1: every public operation holds the Session's lock for its full duration:
\* no cache operation of one thread changes the record-existence cache while
\* another thread is inside migrate, unsafeResetDatabase or destroy.
\* (A step that leaves every pc alone is a cache operation; it is serialized
\* with the locked operations only if it runs while the mutex is free.)
C1_CacheOperationsHoldTheLock ==
    [][(pc' = pc /\ cachedRecords' # cachedRecords) => mutex = NoThread]_vars

\* C2: once destroy has set the destroyed flag, no later operation makes any
\* call on the Engine Handle.
C2_NoEngineCallAfterDestroy ==
    (call.op # "none" /\ call.pre.destroyed) => call.log = <<>>

\* C3: migrate(sql, from, to) on a Session whose schema version is not `from`
\* ends with the assertion failure, runs none of the migration SQL, and leaves
\* the schema version and the data as they were.
C3_MismatchedMigrateIsRefused ==
    (/\ call.op = "migrate"
     /\ Succeeded("begin")
     /\ call.pre.version # call.from
     /\ (pc[mutex] = "unlock" \/ ~alive))
    => (/\ call.err = "assert"
        /\ ~Called("execute")
        /\ ~Called("setUserVersion")
        /\ userVersion = call.pre.version
        /\ data = call.pre.data)

C5_FailedResetRestoresState ==
    FailedInTransaction("unsafeResetDatabase")
    => (/\ userVersion = call.pre.version
        /\ data = call.pre.data
        /\ cachedRecords = call.pre.cache)

\* C5 as amended: when unsafeResetDatabase fails after its transaction began,
\* a rollback is issued, and the record-existence cache stays cleared (a key is
\* cached only if markAsCached ran on it after the clearing); when the rollback
\* succeeds the engine is back at the start of the transaction, not of the
\* call: the vacuumed, empty database, with nothing of the supplied schema and
\* the version the vacuum left (the old one or 0).
C5_FailedResetLeavesEmptyDatabase ==
    FailedInTransaction("unsafeResetDatabase")
    => (/\ Called("rollback")
        /\ cachedRecords \subseteq lastMarked
        /\ Succeeded("rollback")
           => (/\ ~inTx
               /\ data = {}
               /\ committed.data = {}
               /\ userVersion \in {0, call.pre.version}
               /\ committed.version = userVersion))

\* A reset of a database with data and cached keys whose schema batch failed
\* and was rolled back: the data and the keys are gone.
C5_Witness ==
    /\ FailedInTransaction("unsafeResetDatabase")
    /\ call.err = "execute"
    /\ Succeeded("rollback")
    /\ call.pre.data # {}
    /\ call.pre.cache # {}
    /\ cachedRecords = {}

\* C6: however many times destroy is called, from however many threads, each
\* cached statement is finalized once, the statement cache is cleared and the
\* handle closed once; a destroy that finds the Session destroyed returns
\* without an error, makes no call and changes nothing.
C6_DestroyOnce ==
    /\ closeCount <= 1
    /\ \A s \in Stmts : finalizeCount[s] <= 1
    /\ (isDestroyed /\ (call.op # "destroy" \/ call.pre.destroyed \/ pc[mutex] = "unlock"))
       => (/\ closeCount = 1
           /\ cachedStatements = {}
           /\ \A s \in Stmts : finalizeCount[s] = (IF s \in prepared THEN 1 ELSE 0))
    /\ (call.op = "destroy" /\ call.pre.destroyed)
       => (call.err = "none" /\ call.log = <<>> /\ call.todo = {})

\* A second destroy returning, on a Session that held compiled statements.
C6_Witness ==
    /\ Returning("destroy")
    /\ call.pre.destroyed
    /\ prepared # {}

\* C7: when unsafeResetDatabase returns successfully, isCached(k) is false
\* for every key k marked before the reset (unless markAsCached(k) ran again,
\* on another thread, after the reset cleared the cache).
C7_ResetClearsCache ==
    (Returning("unsafeResetDatabase") /\ call.err = "none")
    => \A k \in call.pre.cache : isCached(k) => k \in lastMarked

\* A successful reset of a Session with cached keys, none of them cached now.
C7_Witness ==
    /\ Returning("unsafeResetDatabase")
    /\ call.err = "none"
    /\ call.pre.cache # {}
    /\ \A k \in call.pre.cache : ~isCached(k)

\* C8: isCached(k) is true exactly when the most recent mutator call on k was
\* markAsCached (false after removeFromCache, and when k was never marked
\* since the cache was last cleared); calls on other keys do not matter.
C8_CacheReflectsLastCall ==
    \A k \in Keys : isCached(k) <=> (k \in lastMarked)

\* One key marked and still cached while another is not.
C8_Witness ==
    \E k1, k2 \in Keys : isCached(k1) /\ ~isCached(k2) /\ k1 \in lastMarked

\* C9: when unsafeResetDatabase(schema, schemaVersion) returns successfully,
\* the schema version is schemaVersion, the data is exactly what the schema
\* batch creates (all of it, and nothing from before), and it is committed.
C9_ResetInstallsSchema ==
    (Returning("unsafeResetDatabase") /\ call.err = "none")
    => (/\ userVersion = call.to
        /\ data = Range(call.sql)
        /\ ~inTx
        /\ committed = [version |-> call.to, data |-> Range(call.sql)])

\* A successful reset that removed data and changed the version.
C9_Witness ==
    /\ Returning("unsafeResetDatabase")
    /\ call.err = "none"
    /\ ~(call.pre.data \subseteq Range(call.sql))
    /\ call.pre.version # call.to

\* C10: when migrate(sql, from, to) returns successfully on a Session whose
\* version was `from`, the batch is applied and committed and the version is
\* `to`; and during a migrate from another version to `to`, the stored version
\* is `to` only once the commit has stored the whole batch with it.
C10_MigrateInstallsVersion ==
    /\ (Returning("migrate") /\ call.err = "none" /\ call.pre.version = call.from)
       => (/\ userVersion = call.to
           /\ data = call.pre.data \cup Range(call.sql)
           /\ ~inTx
           /\ committed = [version |-> userVersion, data |-> data])
    /\ (call.op = "migrate" /\ Succeeded("begin") /\ call.pre.version # call.to
           /\ committed.version = call.to)
       => (Succeeded("commit") /\ Range(call.sql) \subseteq committed.data)

\* A successful migrate that raised the version and added to the data.
C10_Witness ==
    /\ Returning("migrate")
    /\ call.err = "none"
    /\ call.pre.version = call.from
    /\ call.from # call.to
    /\ ~(Range(call.sql) \subseteq call.pre.data)

\* The first call of the running operation that failed ("none" when every
\* call so far succeeded): the exception that entered the catch block.
FirstFailure ==
    IF \E i \in 1..Len(call.log) : ~call.log[i].ok
    THEN call.log[CHOOSE i \in 1..Len(call.log) :
                      /\ ~call.log[i].ok
                      /\ \A j \in 1..(i - 1) : call.log[j].ok].f
    ELSE "none"

\* C11: when migrate or unsafeResetDatabase fails after its transaction
\* began, the error that reaches the caller is the failure that triggered the
\* rollback (of the batch, the version write or the commit), also when the
\* rollback itself fails; and a call in which a step failed does not return
\* normally.
C11_OriginalFailureDelivered ==
    \A op \in {"migrate", "unsafeResetDatabase"} :
        (Returning(op) /\ Succeeded("begin")) => call.err = FirstFailure

\* C12: migrate never changes the record-existence cache: no step of a
\* migrate call, from taking the lock to releasing it, whether the call
\* succeeds, fails before its transaction or fails and rolls back, changes
\* isCached(k) for any key k.
C12_MigrateLeavesCacheAlone ==
    [][\A t \in Threads :
          (pc'[t] # pc[t] /\ (call.op = "migrate" \/ call'.op = "migrate"))
          => \A k \in Keys : (k \in cachedRecords') <=> isCached(k)]_vars

\* A migrate that failed and rolled back on a Session with cached keys.
C12_Witness ==
    /\ FailedInTransaction("migrate")
    /\ Succeeded("rollback")
    /\ cachedRecords # {}

\* C13: in every execution, also after an earlier migrate or reset
\* whose commit or rollback failed, the vacuum of unsafeResetDatabase runs
\* only while no transaction is open on the Engine Handle, and before that
\* call's beginTransaction.
C13_VacuumOutsideTransaction ==
    call.op = "unsafeResetDatabase"
    => (/\ (Called("vacuum") /\ ~Called("begin")) => ~inTx
        /\ CalledBefore("vacuum", "begin"))

\* C14: in destroy every cached compiled statement is finalized before the
\* Engine Handle is closed: in no state is the handle closed while a statement
\* that was in the statement cache is not finalized or still in the cache.
C14_FinalizedBeforeClose ==
    closeCount >= 1
    => (/\ \A s \in prepared : finalizeCount[s] >= 1
        /\ cachedStatements = {}
        /\ call.op = "destroy" => CalledBefore("finalize", "close"))

\* The handle has just been closed by a destroy that had statements to finalize.
C14_Witness ==
    /\ call.op = "destroy"
    /\ Called("close")
    /\ Cardinality(prepared) >= 2

\* C15: the first destroy finalizes each statement of the statement cache
\* exactly once and goes through all of them even when a finalization reports
\* an error; when it returns the statement cache is empty, the handle is
\* closed and no error reaches the caller.
C15_DestroyFinalizesAll ==
    (Returning("destroy") /\ ~call.pre.destroyed)
    => (/\ \A s \in Stmts : finalizeCount[s] = (IF s \in prepared THEN 1 ELSE 0)
        /\ Cardinality({i \in 1..Len(call.log) : call.log[i].f = "finalize"})
              = Cardinality(prepared)
        /\ cachedStatements = {}
        /\ closeCount = 1
        /\ call.err = "none")

\* A first destroy returning after the finalization of its first statement
\* reported an error and a later one was still finalized.
C15_Witness ==
    /\ Returning("destroy")
    /\ ~call.pre.destroyed
    /\ Len(call.log) >= 3
    /\ ~call.log[1].ok
    /\ call.log[2].f = "finalize"

\* C16: when unsafeResetDatabase fails while enabling reset mode, vacuuming or
\* disabling reset mode, that failure goes straight to the caller: no
\* transaction was begun, no rollback issued, the schema SQL not executed, the
\* version not written; and none of these three steps, failing or not, clears
\* or otherwise changes the record-existence cache.
C16_EarlyResetFailurePropagates ==
    [][\A t \in Threads :
          (/\ call.op = "unsafeResetDatabase" /\ mutex = t
           /\ pc[t] \in {"r_enable", "r_vacuum", "r_disable"}
           /\ call' # call)
          => (/\ cachedRecords' = cachedRecords
              /\ inTx' = inTx
              /\ call'.err # "none"
                 => (/\ pc'[t] = "unlock"
                     /\ call'.err \in {"enableReset", "vacuum", "disableReset"}
                     /\ \A i \in 1..Len(call'.log) :
                           call'.log[i].f \notin {"begin", "rollback", "execute",
                                                  "setUserVersion", "commit"}))]_vars

\* A reset of a Session with cached keys returning the failure of its vacuum,
\* the keys still cached.
C16_Witness ==
    /\ Returning("unsafeResetDatabase")
    /\ call.err = "vacuum"
    /\ ~inTx
    /\ call.pre.cache # {}
    /\ cachedRecords = call.pre.cache

\* C17: while a migrate is between its read of the schema version and its
\* commit or rollback, no other migrate, unsafeResetDatabase or destroy on the
\* Session is at any step (only the holder of the mutex is inside such an
\* operation), and the version that was compared with `from` is still the
\* engine's version when the batch runs and when the version is set to `to`.
C17_MigrateIsAtomic ==
    /\ \A t \in Threads : pc[t] # "idle" => mutex = t
    /\ mutex # NoThread <=> call.op # "none"
    /\ (/\ call.op = "migrate"
        /\ Succeeded("getUserVersion")
        /\ pc[mutex] \in {"m_exec", "m_setver"})
       => userVersion = call.from

\* A migrate that compared the version and ran a batch that changed the data,
\* about to set the version.
C17_Witness ==
    /\ call.op = "migrate"
    /\ alive
    /\ Succeeded("getUserVersion")
    /\ pc[mutex] = "m_setver"
    /\ data # call.pre.data
    /\ call.from # call.to

\* The names of the encryption-configuration pragmas.
EncryptionNames ==
    {EncryptionPragmas(<<>>)[i].pragma : i \in 1..Len(EncryptionPragmas(<<>>))}

\* C18: when the Session is opened with a non-empty password and encryption
\* is enabled (a build with the codec), the script starts with the six
\* encryption pragmas: key, cipher page size 4096, kdf iterations 64000,
\* memory security, default HMAC, compatibility mode; the temp-store,
\* journal-mode, busy-timeout, synchronous and locking-mode pragmas all come
\* after them, on every platform and for either value of usesExclusiveLocking;
\* no encryption pragma is anywhere else in a script; and the locking-mode
\* pragma is in the script exactly when usesExclusiveLocking is true.
C18_EncryptionPragmasFirst ==
    ctor.at # "new"
    => LET script == ctor.initSql
           encrypted == ctor.sqliteHasCodec /\ ctor.password # <<>>
       IN  /\ encrypted
              => (/\ Len(script) >= 6
                  /\ SubSeq(script, 1, 6) = EncryptionPragmas(ctor.password))
           /\ \A i \in 1..Len(script) :
                 script[i].pragma \in EncryptionNames <=> (encrypted /\ i <= 6)
           /\ \A name \in {"journal_mode", "busy_timeout"} :
                 \E i \in 1..Len(script) : script[i].pragma = name
           /\ (\E i \in 1..Len(script) : script[i].pragma = "locking_mode")
              <=> ctor.usesExclusiveLocking

\* A Session opened with a password in a build with the codec for Android,
\* with exclusive locking: all eleven pragmas are in the script.
C18_Witness ==
    /\ ctor.at = "open"
    /\ ctor.sqliteHasCodec /\ ctor.android
    /\ Len(ctor.password) = MaxPasswordLen
    /\ ctor.usesExclusiveLocking
    /\ Len(ctor.initSql) = 11

\* C19: the engine's "reset database" mode is disabled whenever
\* unsafeResetDatabase is not executing: every return from it, normal or by a
\* failure (of the vacuum too), leaves the mode disabled, so no migrate or
\* other operation runs with the mode enabled.
C19_ResetModeOffOutsideReset ==
    (call.op # "unsafeResetDatabase" \/ Returning("unsafeResetDatabase"))
    => ~resetMode

\* Within the running call: at most one beginTransaction, commit and rollback;
\* commit and rollback only after a successful beginTransaction; rollback only
\* after a step inside the transaction failed, never after a successful
\* commit; and a call that returns after a successful beginTransaction has
\* committed or has issued its rollback.
BalancedCall ==
    /\ \A f \in {"begin", "commit", "rollback"} : CallCount(f) <= 1
    /\ Called("commit") => (Succeeded("begin") /\ CalledBefore("begin", "commit"))
    /\ Called("rollback")
       => (/\ Succeeded("begin")
           /\ CalledBefore("begin", "rollback")
           /\ CalledBefore("commit", "rollback")
           /\ ~Succeeded("commit")
           /\ FirstFailure \notin {"none", "begin", "rollback"})
    /\ (pc[mutex] = "unlock" /\ alive /\ Succeeded("begin"))
       => (Succeeded("commit") \/ Called("rollback"))

====
